---- MODULE Spec2Model ----
(***************************************************************************)
(* Model of the fingerprinting and matching pipeline of specrec:           *)
(*   audio_processing.py      _peaks, _local_peak_locations, _find_cutoff, *)
(*                            extract_local_peak_idxs, form_fingerprints   *)
(*   database_keyfunctions.py store_fingerprint, query_database            *)
(* Arrays keep the source's 0-based indices; Python lists are sequences.   *)
(***************************************************************************)
EXTENDS Integers, Sequences, FiniteSets, TLC

VARIABLES
    data_2d,        \* the spectrogram: [shape |-> <<H, W>>, a |-> [<<r, c>> -> amplitude]]
    cfg,            \* audio_processing_config.configs
    neighborhood,   \* the mask of the last peak search
    amp_min,        \* the cutoff of the last peak search
    cutoff,         \* the last value returned by _find_cutoff
    peaks,          \* the last peak list, a sequence of <<r, c>> = <<f, t>>
    fingerprints,   \* the last value returned by form_fingerprints
    database,       \* the defaultdict(list) of populate_database
    tallies,        \* the dict of the last query, in insertion order
    winner,         \* the (songID, offset) the last query selected
    final_ID,       \* the song the last query selected
    result,         \* what the last query returned
    songID,         \* the song of the last store_fingerprint call
    nstored,        \* number of store_fingerprint calls so far
    err,            \* "none", or the exception the last call raised
    last,           \* the last operation that ran
    prev            \* the operation that ran before it

storevars == <<database, songID, nstored>>
queryvars == <<tallies, winner, final_ID, result>>

vars == <<data_2d, cfg, neighborhood, amp_min, cutoff, peaks, fingerprints,
          storevars, queryvars, err, last, prev>>

---------------------------------------------------------------------------
(* Bounds of the model *)

MaxCells == 4        \* a spectrogram has at most MaxCells cells
MaxAmp == 2          \* amplitudes range over 0..MaxAmp
MaxIter == 2         \* neighborhood_iterations ranges over 0..MaxIter
PctDen == 4          \* amp_threshold_pct ranges over k / PctDen, 0 <= k < PctDen

Min(a, b) == IF a < b THEN a ELSE b
Max(a, b) == IF a < b THEN b ELSE a
Abs(a) == IF a < 0 THEN 0 - a ELSE a

---------------------------------------------------------------------------
(* Inputs *)

Shapes == {s \in (1..MaxCells) \X (1..MaxCells) : s[1] * s[2] <= MaxCells}

Cells(shape) == (0..(shape[1] - 1)) \X (0..(shape[2] - 1))

Matrices ==
    UNION {{[shape |-> s, a |-> f] : f \in [Cells(s) -> 0..MaxAmp]} : s \in Shapes}

\* scipy.ndimage.generate_binary_structure(2, 1) iterated: iterations < 2 give
\* the 3x3 cross, iterations n >= 2 the (2n+1)x(2n+1) diamond of radius n.
iterate_structure(n) ==
    LET rad == Max(n, 1)
        shp == <<2 * rad + 1, 2 * rad + 1>>
    IN  [shape |-> shp,
         m |-> [p \in Cells(shp) |-> Abs(p[1] - rad) + Abs(p[2] - rad) <= rad]]

BoolMasks(shp) == {[shape |-> shp, m |-> f] : f \in [Cells(shp) -> BOOLEAN]}

Masks ==
    BoolMasks(<<1, 3>>) \cup BoolMasks(<<3, 1>>)
        \cup {iterate_structure(n) : n \in 0..MaxIter}
        \cup {[shape |-> <<1, 2>>, m |-> [p \in Cells(<<1, 2>>) |-> TRUE]],
              [shape |-> <<2, 1>>, m |-> [p \in Cells(<<2, 1>>) |-> TRUE]]}

Cutoffs == (0 - 1)..MaxAmp

Configs ==
    [amp_threshold_pct : 0..(PctDen - 1), neighborhood_iterations : 0..MaxIter,
     fanout_size : {1}]

NoConfig == [amp_threshold_pct |-> 0, neighborhood_iterations |-> 0, fanout_size |-> 1]
NoMatrix == [shape |-> <<1, 1>>, a |-> [p \in Cells(<<1, 1>>) |-> 0]]
EmptyDict == [k \in {} |-> <<>>]
NoPair == <<0 - 1, 0>>
NoMask == [shape |-> <<1, 1>>, m |-> [p \in Cells(<<1, 1>>) |-> TRUE]]

---------------------------------------------------------------------------
(* audio_processing.py: peak extraction *)

ndindex_rowmajor(W, H) == [k \in 1..(W * H) |-> <<(k - 1) % W, (k - 1) \div W>>]

\* np.ndindex(*data_2d.shape[::-1]): the (c, r) pairs, c outermost
ndindex(W, H) == [k \in 1..(W * H) |-> <<(k - 1) \div H, (k - 1) % H>>]

InBounds(i, n) == 0 <= i /\ i < n

NeighborGreaterOrEqual(data, r, c, dr, dc) == data.a[<<r, c>>] <= data.a[<<r + dr, c + dc>>]

\* line 95: the test that breaks out of the neighbor loop
NeighborGreater(data, r, c, dr, dc) == data.a[<<r, c>>] < data.a[<<r + dr, c + dc>>]

\* lines 88-98: the for/else over zip(row offsets, col offsets), from position n;
\* TRUE iff the loop runs to its end without break
RECURSIVE NoBreak(_, _, _, _, _, _)
NoBreak(data, r, c, rowoff, coloff, n) ==
    IF n > Min(Len(rowoff), Len(coloff)) THEN TRUE
    ELSE LET dr == rowoff[n]
             dc == coloff[n]
         IN  IF dr = 0 /\ dc = 0 THEN NoBreak(data, r, c, rowoff, coloff, n + 1)
             ELSE IF ~InBounds(r + dr, data.shape[1])
                  THEN NoBreak(data, r, c, rowoff, coloff, n + 1)
             ELSE IF ~InBounds(c + dc, data.shape[2])
                  THEN NoBreak(data, r, c, rowoff, coloff, n + 1)
             ELSE IF NeighborGreater(data, r, c, dr, dc) THEN FALSE
             ELSE NoBreak(data, r, c, rowoff, coloff, n + 1)

RECURSIVE PeaksLoop(_, _, _, _, _, _, _)
PeaksLoop(data, rowoff, coloff, amin, order, k, acc) ==
    IF k > Len(order) THEN acc
    ELSE LET c == order[k][1]
             r == order[k][2]
         IN  IF data.a[<<r, c>>] <= amin
             THEN PeaksLoop(data, rowoff, coloff, amin, order, k + 1, acc)
             ELSE IF NoBreak(data, r, c, rowoff, coloff, 1)
                  THEN PeaksLoop(data, rowoff, coloff, amin, order, k + 1,
                                 Append(acc, <<r, c>>))
                  ELSE PeaksLoop(data, rowoff, coloff, amin, order, k + 1, acc)

_peaks(data, rowoff, coloff, amin) ==
    PeaksLoop(data, rowoff, coloff, amin, ndindex(data.shape[2], data.shape[1]), 1, <<>>)

\* np.where(mask): the positions of the true cells, in row-major order
RECURSIVE WhereLoop(_, _, _)
WhereLoop(mask, k, acc) ==
    IF k >= mask.shape[1] * mask.shape[2] THEN acc
    ELSE LET p == <<k \div mask.shape[2], k % mask.shape[2]>>
         IN  WhereLoop(mask, k + 1, IF mask.m[p] THEN Append(acc, p) ELSE acc)

where(mask) == WhereLoop(mask, 0, <<>>)

OddShape(mask) == mask.shape[1] % 2 = 1 /\ mask.shape[2] % 2 = 1

nbrhd_row_offsets(mask) ==
    [i \in 1..Len(where(mask)) |-> where(mask)[i][1] - (mask.shape[1] \div 2)]

nbrhd_col_offsets(mask) ==
    [i \in 1..Len(where(mask)) |-> where(mask)[i][2] - (mask.shape[2] \div 2)]

_local_peak_locations(data, mask, amin) ==
    _peaks(data, nbrhd_row_offsets(mask), nbrhd_col_offsets(mask), amin)

\* spectrogram.ravel(): the values in row-major order
ravel(data) ==
    [k \in 1..(data.shape[1] * data.shape[2]) |->
        data.a[<<(k - 1) \div data.shape[2], (k - 1) % data.shape[2]>>]]

\* Python's round() of the float num/den: to nearest, halves to even
round(num, den) ==
    LET q == num \div den
        rem == num % den
    IN  IF 2 * rem > den THEN q + 1
        ELSE IF 2 * rem < den THEN q
        ELSE IF q % 2 = 0 THEN q ELSE q + 1

cutoff_idx(data, c) == round(Len(ravel(data)) * c.amp_threshold_pct, PctDen)

\* np.partition(flat, idx)[idx]: the element at position idx (0-based) of the
\* ascending-sorted values; defined for 0 <= idx < len only
partition_at(flat, idx) ==
    CHOOSE v \in {flat[i] : i \in 1..Len(flat)} :
        /\ Cardinality({i \in 1..Len(flat) : flat[i] < v}) <= idx
        /\ idx < Cardinality({i \in 1..Len(flat) : flat[i] <= v})

partition_raises(flat, idx) == ~(idx < Len(flat))

---------------------------------------------------------------------------
(* Operations on spectrograms *)

FindCutoff ==
    /\ last = "init"
    /\ IF partition_raises(ravel(data_2d), cutoff_idx(data_2d, cfg))
       THEN err' = "ValueError" /\ UNCHANGED cutoff
       ELSE err' = "none"
            /\ cutoff' = partition_at(ravel(data_2d), cutoff_idx(data_2d, cfg))
    /\ last' = "_find_cutoff"
    /\ prev' = last
    /\ UNCHANGED <<data_2d, cfg, neighborhood, amp_min, peaks, fingerprints,
                   storevars, queryvars>>

LocalPeakLocations ==
    \E mask \in Masks, amin \in Cutoffs :
        /\ last = "init"
        /\ neighborhood' = mask
        /\ amp_min' = amin
        /\ IF OddShape(mask)
           THEN err' = "none" /\ peaks' = _local_peak_locations(data_2d, mask, amin)
           ELSE err' = "AssertionError" /\ UNCHANGED peaks
        /\ last' = "_local_peak_locations"
        /\ prev' = last
        /\ UNCHANGED <<data_2d, cfg, cutoff, fingerprints, storevars, queryvars>>

ExtractLocalPeakIdxs ==
    /\ last = "init"
    /\ neighborhood' = iterate_structure(cfg.neighborhood_iterations)
    /\ IF partition_raises(ravel(data_2d), cutoff_idx(data_2d, cfg))
       THEN err' = "ValueError" /\ UNCHANGED <<cutoff, amp_min, peaks>>
       ELSE /\ err' = "none"
            /\ cutoff' = partition_at(ravel(data_2d), cutoff_idx(data_2d, cfg))
            /\ amp_min' = cutoff'
            /\ peaks' = _local_peak_locations(data_2d, neighborhood', cutoff')
    /\ last' = "extract_local_peak_idxs"
    /\ prev' = last
    /\ UNCHANGED <<data_2d, cfg, fingerprints, storevars, queryvars>>

InitStore ==
    /\ database = EmptyDict
    /\ songID = 0 - 1
    /\ nstored = 0
    /\ tallies = <<>>
    /\ winner = NoPair
    /\ final_ID = 0 - 1
    /\ result = "none"

InitRest ==
    /\ neighborhood = NoMask
    /\ amp_min = 0
    /\ cutoff = 0
    /\ peaks = <<>>
    /\ fingerprints = <<>>
    /\ InitStore
    /\ err = "none"
    /\ last = "init"
    /\ prev = "init"

InitPeaks ==
    /\ data_2d \in Matrices
    /\ cfg = NoConfig
    /\ InitRest

NextPeaks == LocalPeakLocations

SpecPeaks == InitPeaks /\ [][NextPeaks]_vars

InitCutoff ==
    /\ data_2d \in Matrices
    /\ cfg \in Configs
    /\ InitRest

NextCutoff == FindCutoff \/ ExtractLocalPeakIdxs

SpecCutoff == InitCutoff /\ [][NextCutoff]_vars

---------------------------------------------------------------------------
(* Properties of the peak search *)

Range(s) == {s[i] : i \in 1..Len(s)}

\* (r1, c1) comes strictly before (r2, c2) in column-major order
ColMajorLess(p, q) == p[2] < q[2] \/ (p[2] = q[2] /\ p[1] < q[1])

PeaksReturned ==
    last \in {"_local_peak_locations", "extract_local_peak_idxs"} /\ err = "none"

\* C5: the returned peak list is strictly ascending in column-major order
\* (ascending column, within a column ascending row), so no cell appears twice.
C5_ColumnMajor ==
    PeaksReturned =>
        \A i \in 1..(Len(peaks) - 1) : ColMajorLess(peaks[i], peaks[i + 1])

C5_Witness ==
    /\ PeaksReturned
    /\ Len(peaks) >= 3
    /\ peaks[1][2] = peaks[2][2]
    /\ peaks[2][2] < peaks[3][2]

\* the non-zero offsets (dr, dc) of a mask
MaskOffsets(mask) ==
    {<<p[1] - (mask.shape[1] \div 2), p[2] - (mask.shape[2] \div 2)>> :
        p \in {q \in Cells(mask.shape) : mask.m[q]}} \ {<<0, 0>>}

IsLocalPeak(data, mask, amin, cell) ==
    /\ data.a[cell] > amin
    /\ \A o \in MaskOffsets(mask) :
          LET nb == <<cell[1] + o[1], cell[2] + o[2]>>
          IN  nb \in Cells(data.shape) => ~(data.a[nb] > data.a[cell])

\* C6: a cell is returned iff its amplitude is strictly above the cutoff and no
\* in-bounds neighbor at a non-zero mask offset is strictly greater; equal
\* neighbors and out-of-bounds neighbors do not disqualify it.
C6_PeakIff ==
    PeaksReturned =>
        \A cell \in Cells(data_2d.shape) :
            (cell \in Range(peaks)) <=> IsLocalPeak(data_2d, neighborhood, amp_min, cell)

\* a returned peak with an equal in-bounds neighbor and an out-of-bounds one,
\* next to a cell above the cutoff that a greater neighbor rejects
C6_Witness ==
    /\ PeaksReturned
    /\ \E cell \in Range(peaks) :
          /\ \E o \in MaskOffsets(neighborhood) :
                LET nb == <<cell[1] + o[1], cell[2] + o[2]>>
                IN  nb \in Cells(data_2d.shape) /\ data_2d.a[nb] = data_2d.a[cell]
          /\ \E o \in MaskOffsets(neighborhood) :
                <<cell[1] + o[1], cell[2] + o[2]>> \notin Cells(data_2d.shape)
    /\ \E cell \in Cells(data_2d.shape) :
          data_2d.a[cell] > amp_min /\ cell \notin Range(peaks)

\* C10: for every non-empty matrix and every percentile 0 <= p < 1 the cutoff
\* computation succeeds: the index round(n*p) lies in 0..n-1 and the cutoff is
\* the element at that position of the ascending-sorted values.
C10_CutoffSucceeds ==
    last = "_find_cutoff" =>
        /\ err = "none"
        /\ cutoff_idx(data_2d, cfg) \in 0..(Len(ravel(data_2d)) - 1)
        /\ cutoff \in Range(ravel(data_2d))
        /\ Cardinality({i \in 1..Len(ravel(data_2d)) : ravel(data_2d)[i] < cutoff})
              <= cutoff_idx(data_2d, cfg)
        /\ cutoff_idx(data_2d, cfg)
              < Cardinality({i \in 1..Len(ravel(data_2d)) : ravel(data_2d)[i] <= cutoff})

---------------------------------------------------------------------------
(* audio_processing.py: fingerprints *)

MaxFreq == 1         \* peak frequencies range over 0..MaxFreq
MaxTime == 2         \* peak times range over 0..MaxTime
MaxPeaks == 3        \* a peak list has at most MaxPeaks peaks
MaxFanout == 2       \* fanout_size ranges over 1..MaxFanout

PeakUniverse == (0..MaxFreq) \X (0..MaxTime)

SeqsUpTo(S, n) == UNION {[1..m -> S] : m \in 0..n}

\* the peak list of the documented scenario
ExamplePeaks == <<(<<2, 0>>), (<<5, 1>>), (<<1, 2>>), (<<2, 2>>)>>

PeakLists == SeqsUpTo(PeakUniverse, MaxPeaks) \cup {ExamplePeaks}

_form_pair_encoding_reversed(peak_m, peak_n) ==
    <<peak_m[1], peak_n[1], peak_m[2] - peak_n[2]>>

\* a peak is <<f, t>>: peak[1] is the source's peak[0], peak[2] its peak[1]
_form_pair_encoding(peak_m, peak_n) ==
    <<peak_m[1], peak_n[1], peak_n[2] - peak_m[2]>>

\* Python's seq[lo:hi] for 0 <= lo, 0 <= hi
slice(seq, lo, hi) == SubSeq(seq, lo + 1, Min(hi, Len(seq)))

fanout_local_peaks_from_anchor(local_peaks_idx, i, fanout_size) ==
    slice(local_peaks_idx, i, i + fanout_size)

\* line 236, i is the 0-based index of the anchor
fanout_local_peaks(local_peaks_idx, i, fanout_size) ==
    slice(local_peaks_idx, i + 1, i + fanout_size + 1)

form_fingerprints(local_peaks_idx, fanout_size) ==
    [g \in 1..Len(local_peaks_idx) |->
        LET idx == local_peaks_idx[g]
            fl == fanout_local_peaks(local_peaks_idx, g - 1, fanout_size)
        IN  [j \in 1..Len(fl) |-> <<_form_pair_encoding(idx, fl[j]), idx[2]>>]]

FormFingerprints ==
    /\ last = "init"
    /\ fingerprints' = form_fingerprints(peaks, cfg.fanout_size)
    /\ err' = "none"
    /\ last' = "form_fingerprints"
    /\ prev' = last
    /\ UNCHANGED <<data_2d, cfg, neighborhood, amp_min, cutoff, peaks, storevars, queryvars>>

InitFP ==
    /\ data_2d = NoMatrix
    /\ cfg \in [amp_threshold_pct : {0}, neighborhood_iterations : {0},
                fanout_size : 1..MaxFanout]
    /\ neighborhood = NoMask
    /\ amp_min = 0
    /\ cutoff = 0
    /\ peaks \in PeakLists
    /\ fingerprints = <<>>
    /\ InitStore
    /\ err = "none"
    /\ last = "init"
    /\ prev = "init"

NextFP == FormFingerprints

SpecFP == InitFP /\ [][NextFP]_vars

---------------------------------------------------------------------------
(* Properties of form_fingerprints *)

ColMajorLeq(p, q) == p[2] < q[2] \/ (p[2] = q[2] /\ p[1] <= q[1])

ColumnMajorOrdered(pl) == \A i \in 1..(Len(pl) - 1) : ColMajorLeq(pl[i], pl[i + 1])

ColumnMajorDistinct(pl) == \A i \in 1..(Len(pl) - 1) : ColMajorLess(pl[i], pl[i + 1])

\* the indices (1-based) of the peaks an entry can have been paired with
Partners(pl, entry) ==
    {p \in 1..Len(pl) : pl[p] = <<entry[1][2], entry[2] + entry[1][3]>>}

\* C4: on a column-major ordered peak list no key has a negative delta-time,
\* and the anchor at index i is never paired with a partner at an index <= i.
C4_ForwardOnly ==
    (last = "form_fingerprints" /\ ColumnMajorOrdered(peaks)) =>
        /\ \A g \in 1..Len(fingerprints) : \A j \in 1..Len(fingerprints[g]) :
              fingerprints[g][j][1][3] >= 0
        /\ ColumnMajorDistinct(peaks) =>
              \A g \in 1..Len(fingerprints) : \A j \in 1..Len(fingerprints[g]) :
                  /\ Partners(peaks, fingerprints[g][j]) # {}
                  /\ \A p \in Partners(peaks, fingerprints[g][j]) : p > g

C4_Witness ==
    /\ last = "form_fingerprints"
    /\ ColumnMajorDistinct(peaks)
    /\ Len(peaks) >= 3
    /\ Len(fingerprints[1]) >= 2
    /\ fingerprints[1][1][1][3] = 0
    /\ fingerprints[1][2][1][3] > 0

\* C8: n peaks give n groups; group i (0-based) lists, for j = i+1 .. min(i+k, n-1)
\* in ascending j, the entry ((peak[i].freq, peak[j].freq, peak[j].time -
\* peak[i].time), peak[i].time), so it has min(k, n-1-i) entries; the documented
\* scenario gives group lengths [2,2,1,0] and first-group keys [(2,5,1),(2,1,2)].
C8_Groups ==
    last = "form_fingerprints" =>
        LET n == Len(peaks)
            k == cfg.fanout_size
        IN  /\ Len(fingerprints) = n
            /\ \A i \in 0..(n - 1) :
                  /\ Len(fingerprints[i + 1]) = Min(k, n - 1 - i)
                  /\ \A j \in (i + 1)..Min(i + k, n - 1) :
                        fingerprints[i + 1][j - i] =
                            <<(<<peaks[i + 1][1], peaks[j + 1][1],
                                 peaks[j + 1][2] - peaks[i + 1][2]>>), peaks[i + 1][2]>>
            /\ (peaks = ExamplePeaks /\ k = 2) =>
                  /\ [g \in 1..4 |-> Len(fingerprints[g])] = <<2, 2, 1, 0>>
                  /\ [j \in 1..2 |-> fingerprints[1][j][1]] = <<(<<2, 5, 1>>), (<<2, 1, 2>>)>>

C8_Witness ==
    /\ last = "form_fingerprints"
    /\ peaks = ExamplePeaks
    /\ cfg.fanout_size = 2
    /\ Len(fingerprints) = 4

---------------------------------------------------------------------------
(* database_keyfunctions.py: the store and the query *)

NumSongs == 2        \* song identifiers range over 0..NumSongs-1
MaxStores == 3       \* at most MaxStores calls of store_fingerprint
MaxStoreFreq == 0    \* stored and queried recordings have peaks at frequencies 0..MaxStoreFreq

Songs == 0..(NumSongs - 1)

\* the (key, time) entries of all groups, in group-then-entry order
RECURSIVE FlattenFrom(_, _)
FlattenFrom(groups, g) ==
    IF g > Len(groups) THEN <<>> ELSE groups[g] \o FlattenFrom(groups, g + 1)

Entries(groups) == FlattenFrom(groups, 1)

\* database[key] on a defaultdict(list): an absent key is inserted with []
defaultdict_getitem(db, key) ==
    IF key \in DOMAIN db THEN db
    ELSE [k \in (DOMAIN db) \cup {key} |-> IF k = key THEN <<>> ELSE db[k]]

list_prepend(db, key, v) ==
    [defaultdict_getitem(db, key) EXCEPT ![key] = <<v>> \o @]

\* line 12: database[key].append(v)
list_append(db, key, v) ==
    [defaultdict_getitem(db, key) EXCEPT ![key] = Append(@, v)]

RECURSIVE StoreLoop(_, _, _, _)
StoreLoop(entries, e, sid, db) ==
    IF e > Len(entries) THEN db
    ELSE StoreLoop(entries, e + 1, sid,
                   list_append(db, entries[e][1], <<sid, entries[e][2]>>))

store_fingerprint(groups, sid, db) == StoreLoop(Entries(groups), 1, sid, db)

t_offset_sum(ts, tc) == ts + tc

\* line 25: int(ts - tc), on integer times
t_offset(ts, tc) == ts - tc

\* line 26: tallies[k] += 1 on a defaultdict(int); a new key goes last
tally_incr(tl, k) ==
    IF \E i \in 1..Len(tl) : tl[i].key = k
    THEN [i \in 1..Len(tl) |-> IF tl[i].key = k THEN [tl[i] EXCEPT !.n = @ + 1] ELSE tl[i]]
    ELSE Append(tl, [key |-> k, n |-> 1])

\* lines 24-26: the loop over the list stored under the entry's key
RECURSIVE StoredLoop(_, _, _, _)
StoredLoop(lst, j, tc, tl) ==
    IF j > Len(lst) THEN tl
    ELSE StoredLoop(lst, j + 1, tc,
                    tally_incr(tl, <<lst[j][1], t_offset(lst[j][2], tc)>>))

\* lines 22-26: st = [database, tallies] after the entries from position e on
RECURSIVE QueryLoop(_, _, _)
QueryLoop(entries, e, st) ==
    IF e > Len(entries) THEN st
    ELSE LET db == defaultdict_getitem(st.database, entries[e][1])
         IN  QueryLoop(entries, e + 1,
                       [database |-> db,
                        tallies |-> StoredLoop(db[entries[e][1]], 1, entries[e][2],
                                               st.tallies)])

\* max(tallies.values()), for a non-empty dict
max_value(tl) == CHOOSE m \in {tl[i].n : i \in 1..Len(tl)} : \A i \in 1..Len(tl) : tl[i].n <= m

max_key_last(tl) ==
    tl[CHOOSE i \in 1..Len(tl) :
          tl[i].n = max_value(tl) /\ \A j \in (i + 1)..Len(tl) : tl[j].n < max_value(tl)].key

\* max(tallies, key=tallies.get): the first key, in insertion order, of greatest value
max_key(tl) ==
    tl[CHOOSE i \in 1..Len(tl) :
          tl[i].n = max_value(tl) /\ \A j \in 1..(i - 1) : tl[j].n < max_value(tl)].key

query_database(groups, db) ==
    LET st == QueryLoop(Entries(groups), 1, [database |-> db, tallies |-> <<>>])
        base == [database |-> st.database, tallies |-> st.tallies, err |-> "none",
                 winner |-> NoPair, final_ID |-> 0 - 1, result |-> "none"]
    IN  IF st.tallies = <<>>
        THEN [base EXCEPT !.err = "ValueError"]
        ELSE IF max_value(st.tallies) = 0
        THEN [base EXCEPT !.result = "no match"]
        ELSE [base EXCEPT !.winner = max_key(st.tallies),
                          !.final_ID = max_key(st.tallies)[1],
                          !.result = "match"]

---------------------------------------------------------------------------
(* Operations on the store *)

\* the peak lists extract_local_peak_idxs can return: column-major, distinct cells
Recordings ==
    {pl \in SeqsUpTo((0..MaxStoreFreq) \X (0..MaxTime), MaxPeaks) : ColumnMajorDistinct(pl)}

\* main.py 35-41, database_utils.py 79-85: a recording's peaks and fingerprints
Fingerprint ==
    \E pl \in Recordings :
        /\ peaks' = pl
        /\ fingerprints' = form_fingerprints(pl, cfg.fanout_size)
        /\ err' = "none"
        /\ last' = "form_fingerprints"
        /\ prev' = last
        /\ UNCHANGED <<data_2d, cfg, neighborhood, amp_min, cutoff, storevars, queryvars>>

StoreFingerprint ==
    \E sid \in Songs :
        /\ last \in {"form_fingerprints", "store_fingerprint"}
        /\ nstored < MaxStores
        /\ database' = store_fingerprint(fingerprints, sid, database)
        /\ songID' = sid
        /\ nstored' = nstored + 1
        /\ err' = "none"
        /\ last' = "store_fingerprint"
        /\ prev' = last
        /\ UNCHANGED <<data_2d, cfg, neighborhood, amp_min, cutoff, peaks, fingerprints,
                       queryvars>>

QueryDatabase ==
    LET q == query_database(fingerprints, database)
    IN  /\ last \in {"form_fingerprints", "store_fingerprint"}
        /\ database' = q.database
        /\ tallies' = q.tallies
        /\ winner' = q.winner
        /\ final_ID' = q.final_ID
        /\ result' = q.result
        /\ err' = q.err
        /\ last' = "query_database"
        /\ prev' = last
        /\ UNCHANGED <<data_2d, cfg, neighborhood, amp_min, cutoff, peaks, fingerprints,
                       songID, nstored>>

InitDB ==
    /\ data_2d = NoMatrix
    /\ cfg \in [amp_threshold_pct : {0}, neighborhood_iterations : {0},
                fanout_size : 1..MaxFanout]
    /\ InitRest

NextDB == Fingerprint \/ StoreFingerprint \/ QueryDatabase

SpecDB == InitDB /\ [][NextDB]_vars

---------------------------------------------------------------------------
(* Properties of the store and the query *)

\* lookup(key): the list stored under key, empty when the key is absent
Lookup(db, key) == IF key \in DOMAIN db THEN db[key] ELSE <<>>

KeysOf(entries) == {entries[e][1] : e \in 1..Len(entries)}

\* the (sid, time) values of the entries carrying key, in entry order
RECURSIVE ValuesFor(_, _, _, _)
ValuesFor(entries, e, key, sid) ==
    IF e > Len(entries) THEN <<>>
    ELSE (IF entries[e][1] = key THEN <<(<<sid, entries[e][2]>>)>> ELSE <<>>)
            \o ValuesFor(entries, e + 1, key, sid)

\* the entries of a stored list that belong to song sid, in list order
RECURSIVE OfSong(_, _, _)
OfSong(lst, j, sid) ==
    IF j > Len(lst) THEN <<>>
    ELSE (IF lst[j][1] = sid THEN <<lst[j]>> ELSE <<>>) \o OfSong(lst, j + 1, sid)

\* C7: store_fingerprint leaves under every key its previous list followed by
\* one (songID, anchorTime) per entry carrying that key, in group-then-entry
\* order and without deduplication; other keys and existing entries are unchanged.
C7_AppendOnly ==
    [][last' = "store_fingerprint" =>
        LET ents == Entries(fingerprints)
        IN  /\ DOMAIN database' = (DOMAIN database) \cup KeysOf(ents)
            /\ \A key \in DOMAIN database' :
                  database'[key] = Lookup(database, key) \o ValuesFor(ents, 1, key, songID')
      ]_vars

\* a key that holds two songs' entries, one of them twice
C7_Witness ==
    /\ last = "store_fingerprint"
    /\ \E key \in DOMAIN database :
          /\ Len(database[key]) >= 3
          /\ \E i, j \in 1..Len(database[key]) : i < j /\ database[key][i] = database[key][j]
          /\ \E i, j \in 1..Len(database[key]) : database[key][i][1] # database[key][j][1]

\* C3: a query leaves the store, its keys and the list under each key, as it was;
\* looking up an absent key does not add the key.
C3_ReadOnly ==
    [][last' = "query_database" => database' = database]_vars

\* C2: when no key of the query's groups has an entry in the store, the query
\* returns the explicit "no match" result and raises nothing.
C2_NoMatch ==
    (/\ last = "query_database"
     /\ \A key \in KeysOf(Entries(fingerprints)) : Lookup(database, key) = <<>>)
        => (err = "none" /\ result = "no match")

\* the (query entry, stored entry) pairs that vote for (song, offset) p
Votes(p) ==
    LET ents == Entries(fingerprints)
    IN  {v \in (1..Len(ents)) \X (1..MaxStores * MaxPeaks * MaxFanout) :
            /\ v[2] <= Len(Lookup(database, ents[v[1]][1]))
            /\ Lookup(database, ents[v[1]][1])[v[2]][1] = p[1]
            /\ Lookup(database, ents[v[1]][1])[v[2]][2] - ents[v[1]][2] = p[2]}

Count(p) == Cardinality(Votes(p))

AllPairs == Songs \X ((0 - MaxTime)..MaxTime)

Tallied == {tallies[i].key : i \in 1..Len(tallies)}

TallyCounts ==
    /\ \A i \in 1..Len(tallies) : tallies[i].n = Count(tallies[i].key)
    /\ \A i, j \in 1..Len(tallies) : tallies[i].key = tallies[j].key => i = j
    /\ \A p \in AllPairs : Count(p) > 0 => p \in Tallied

Greatest(p) == p \in Tallied /\ \A q \in AllPairs : Count(q) <= Count(p)

\* lowest songID, then smallest offset
PairLeq(p, q) == p[1] < q[1] \/ (p[1] = q[1] /\ p[2] <= q[2])

\* v is reached before w: earlier query entry, or same entry and earlier in the list
VoteBefore(v, w) == v[1] < w[1] \/ (v[1] = w[1] /\ v[2] < w[2])

Matched == last = "query_database" /\ tallies # <<>>

\* C9 as claimed: tallies count the votes, the selected pair has the greatest
\* tally, and among tied pairs it is the one of lowest songID, then smallest
\* offset, whatever the order of storing and querying.
C9_LowestTied ==
    Matched =>
        /\ TallyCounts
        /\ Greatest(winner)
        /\ \A q \in AllPairs : Greatest(q) => PairLeq(winner, q)

\* C9 as amended: tallies count the votes, the selected pair has the greatest
\* tally, and among tied pairs it is the one tallied first: the one whose first
\* vote is reached first, going through the query entries in group-then-entry
\* order and through each stored list in insertion order.
C9_FirstTallied ==
    Matched =>
        /\ TallyCounts
        /\ err = "none" /\ result = "match" /\ final_ID = winner[1]
        /\ Greatest(winner)
        /\ \A q \in AllPairs \ {winner} : Greatest(q) =>
              \E v \in Votes(winner) : \A w \in Votes(q) : VoteBefore(v, w)

\* a tie that the first tallied pair wins against a pair of lower songID
C9_Witness ==
    /\ Matched
    /\ \E q \in AllPairs : Greatest(q) /\ q[1] < winner[1]
    /\ \E q \in AllPairs : Greatest(q) /\ q[1] = winner[1] /\ q[2] < winner[2]

NumEntries == Len(Entries(fingerprints))

\* song sid is in the store exactly as one store_fingerprint of the current groups
StoredOnce(sid) ==
    \A key \in (DOMAIN database) \cup KeysOf(Entries(fingerprints)) :
        OfSong(Lookup(database, key), 1, sid) = ValuesFor(Entries(fingerprints), 1, key, sid)

RoundTrip ==
    /\ last = "query_database"
    /\ prev = "store_fingerprint"
    /\ ColumnMajorDistinct(peaks)
    /\ NumEntries >= 1
    /\ StoredOnce(songID)

Selected(sid) ==
    /\ err = "none"
    /\ result = "match"
    /\ final_ID = sid
    /\ winner[1] = sid
    /\ max_value(tallies) = NumEntries
    /\ Count(winner) = NumEntries

\* C1 as claimed: groups with at least one entry, stored under s into a store
\* that held only other songs and then queried, select s with a winning tally
\* equal to the number of entries.
C1_RoundTrip == RoundTrip => Selected(songID)

\* C1 as amended: the same, for stores in which no (songID, offset) of another
\* song gets as many votes from the groups as the groups have entries.
C1_RoundTripUnrivalled ==
    (RoundTrip /\ \A q \in AllPairs : q[1] # songID => Count(q) < NumEntries)
        => Selected(songID)

\* two entries, another song that gets a vote, and a shifted match of s itself
C1_Witness ==
    /\ RoundTrip
    /\ NumEntries >= 2
    /\ \A q \in AllPairs : q[1] # songID => Count(q) < NumEntries
    /\ \E q \in AllPairs : q[1] # songID /\ Count(q) >= 1
    /\ \E q \in AllPairs : q[1] = songID /\ q[2] # 0 /\ Count(q) >= 1

====
